---- MODULE Spec2Model ----
(***************************************************************************)
(* etcd membership reconciliation, node decommissioning and leadership     *)
(* forwarding of pkg/k3s/workload_cluster_etcd.go, as a state machine over *)
(* the workload cluster (control-plane Nodes with their annotations, the   *)
(* etcd member list and the etcd leader).                                  *)
(***************************************************************************)
EXTENDS Integers, Sequences, FiniteSets, TLC

VARIABLES
    nodes,      \* live control-plane Nodes: name -> annotations
    members,    \* etcd member list: set of [id, name]
    leader,     \* id of the etcd leader, 0 when there is none
    nextId,     \* next etcd member id to hand out
    joins,      \* number of members that joined since the start
    pending,    \* live Nodes for which a removal was accepted and has not landed
    overlap,    \* a removal was accepted while another one had not landed yet
    last,       \* the last call into the package: its input and what it did
    serial,     \* the callers let at most one membership-mutating call be in flight
    pc,         \* position of each concurrent caller in its call
    target,     \* what each concurrent caller removes: the path taken and the name
    seen,       \* the Nodes each concurrent caller's listing returned
    hasty,      \* a call was started while an accepted removal had not landed
    open,       \* number of etcd clients the package acquired and has not closed
    prev        \* the call before the last one, for a caller that calls repeatedly

vars ==
    <<nodes, members, leader, nextId, joins, pending, overlap, last,
      serial, pc, target, seen, hasty, open, prev>>

(***************************************************************************)
(* Bounds                                                                  *)
(***************************************************************************)
MaxJoins == 1
MaxNodeNames == 2
MaxCancelAttempt == 2
MaxOpenClients == 2

(***************************************************************************)
(* Program constants                                                       *)
(***************************************************************************)
EtcdRemoveAnnotation == "etcd.k3s.cattle.io/remove"
EtcdRemovedNodeAnnotation == "etcd.k3s.cattle.io/removed-node-name"
OtherAnnotation == "node.kubernetes.io/other"
MinControlPlaneNodes == 2

Names == {"a", "b", "c"}
NameOrder == <<"a", "b", "c">>
AnnotationKeys == {EtcdRemoveAnnotation, EtcdRemovedNodeAnnotation, OtherAnnotation}
Absent == "-"

\* Errors, by the place that returns them.
NoErr == "nil"
ErrListNodes == "list control plane nodes failed"
ErrControlPlaneMinNodes == "ErrControlPlaneMinNodes"
ErrCreateClient == "failed to create etcd client"
ErrListMembers == "failed to list etcd members using etcd client"
ErrRemoveMember == "failed to remove member from etcd"
ErrNodeNotFound == "node not found"
ErrPatchHelper == "failed to create patch helper for node"
ErrPatch == "failed patch node"
ErrCandidateNil == "leader candidate cannot be nil"
ErrCandidateNoNode == "leader has no node reference"
ErrNoCandidateMember == "failed to get etcd member from node"
ErrMoveLeader == "failed to move leader"
Panic == "panic: assignment to entry in nil map"

Range(s) == {s[i] : i \in 1..Len(s)}

(***************************************************************************)
(* Kubernetes objects                                                      *)
(***************************************************************************)
\* Node.GetAnnotations(): a nil map, or a map from keys to values.
NilAnnotations == [isNil |-> TRUE, m |-> [k \in AnnotationKeys |-> Absent]]
PlainAnnotations ==
    [isNil |-> FALSE,
     m |-> [k \in AnnotationKeys |-> IF k = OtherAnnotation THEN "x" ELSE Absent]]

HasAnnotation(ann, key) == ann.m[key] # Absent

\* Machines as the callers pass them: nil, without a NodeRef, or with one.
NilMachine == [isNil |-> TRUE, hasRef |-> FALSE, name |-> ""]
Machines ==
    {NilMachine, [isNil |-> FALSE, hasRef |-> FALSE, name |-> ""]}
    \cup {[isNil |-> FALSE, hasRef |-> TRUE, name |-> n] : n \in Names \cup {""}}

HasNodeRef(machine) == ~machine.isNil /\ machine.hasRef

\* getControlPlaneNodes: the live control-plane Nodes, in name order.
getControlPlaneNodes(ns) == SelectSeq(NameOrder, LAMBDA n : n \in DOMAIN ns)

(***************************************************************************)
(* etcd                                                                    *)
(***************************************************************************)
NoMember == [id |-> 0, name |-> ""]

RECURSIVE MembersList(_)
\* Client.Members: the member list, by increasing id.
MembersList(ms) ==
    IF ms = {} THEN <<>>
    ELSE LET m == CHOOSE x \in ms : \A y \in ms : x.id <= y.id
         IN <<m>> \o MembersList(ms \ {m})

\* etcdutil.NodeNameFromMember: the node name derived from the member; empty
\* for a member that was added and has not started yet.
NodeNameFromMember(member) == member.name

RECURSIVE MemberForNameFrom(_, _, _)
MemberForNameFrom(list, i, name) ==
    IF i > Len(list) THEN NoMember
    ELSE IF NodeNameFromMember(list[i]) = name THEN list[i]
    ELSE MemberForNameFrom(list, i + 1, name)

\* etcdutil.MemberForName: the first member of the list with that derived name.
MemberForName(list, name) == MemberForNameFrom(list, 1, name)

\* The point of a Reconcile call at which its context is cancelled: at the
\* node-th input node, at that node's own "client" or "members" RPC (attempt
\* 0) or at the "list" or "remove" RPC of its attempt-th removal. From that
\* RPC on every RPC of the call fails with the context's error.
NoCancel == [node |-> 0, attempt |-> 0, rpc |-> "none"]
Cancels ==
    {[node |-> i, attempt |-> 0, rpc |-> r] :
        i \in 1..MaxNodeNames, r \in {"client", "members"}}
    \cup {[node |-> i, attempt |-> j, rpc |-> r] :
        i \in 1..MaxNodeNames, j \in 1..MaxCancelAttempt, r \in {"list", "remove"}}

\* What the collaborators do during one call: the peers that can be reached,
\* whether listing Nodes succeeds, the peers on which Members fails, the
\* derived name for whose member RemoveMember fails, the outcome of the Node
\* patch and of MoveLeader, and the cancellation of the context.
Oracles ==
    [up : SUBSET Names,
     nodesOk : BOOLEAN,
     membersFail : SUBSET Names,
     removeFail : Names \cup {"none"},
     patch : {"ok", "helperErr", "patchErr"},
     moveOk : BOOLEAN,
     cancel : Cancels \cup {NoCancel}]

\* Every RPC made with a cancelled context fails.
Cancelled(orc) ==
    [orc EXCEPT !.nodesOk = FALSE, !.up = {}, !.membersFail = Names, !.cancel = NoCancel]

\* The collaborators as the node-th input node of a Reconcile call finds them.
AtNode(orc, node) ==
    IF orc.cancel.node = 0 \/ node < orc.cancel.node
    THEN [orc EXCEPT !.cancel = NoCancel]
    ELSE IF node > orc.cancel.node THEN Cancelled(orc)
    ELSE orc

\* The collaborators as the attempt-th removal for that node finds them
\* (attempt 0: the node's own client acquisition and member listing).
AtAttempt(orc, attempt, name) ==
    IF orc.cancel.node = 0 \/ attempt < orc.cancel.attempt THEN orc
    ELSE IF attempt > orc.cancel.attempt THEN Cancelled(orc)
    ELSE IF orc.cancel.rpc \in {"client", "list"} THEN Cancelled(orc)
    ELSE IF orc.cancel.rpc = "members" THEN [orc EXCEPT !.membersFail = Names]
    ELSE [orc EXCEPT !.removeFail = name]

NoClient == [ok |-> FALSE, peer |-> "", LeaderID |-> 0]

RECURSIVE FirstAvailableFrom(_, _, _)
FirstAvailableFrom(up, nodeNames, i) ==
    IF i > Len(nodeNames) THEN ""
    ELSE IF nodeNames[i] \in up THEN nodeNames[i]
    ELSE FirstAvailableFrom(up, nodeNames, i + 1)

\* etcdClientFor.forFirstAvailableNode: a client on the first reachable peer.
forFirstAvailableNode(up, ld, nodeNames) ==
    LET p == FirstAvailableFrom(up, nodeNames, 1)
    IN IF p = "" THEN NoClient ELSE [ok |-> TRUE, peer |-> p, LeaderID |-> ld]

\* etcdClientFor.forLeader: a client on the peer that is the leader.
forLeader(up, ms, ld, nodeNames) ==
    LET lm == {m \in ms : m.id = ld}
        p == IF lm = {} THEN "" ELSE NodeNameFromMember(CHOOSE m \in lm : TRUE)
    IN IF p # "" /\ p \in Range(nodeNames) /\ p \in up
       THEN [ok |-> TRUE, peer |-> p, LeaderID |-> ld]
       ELSE NoClient

(***************************************************************************)
(* Quorum-checked direct removal                                           *)
(***************************************************************************)
BelowQuorumFloor_One(items) == Len(items) < 1
BelowQuorumFloor_Never(items) == FALSE

\* len(controlPlaneNodes.Items) < 2
BelowQuorumFloor(items) == Len(items) < MinControlPlaneNodes

deferClose_SuccessOnly(acquired, err) == acquired /\ err = NoErr

\* defer etcdClient.Close(), placed right after the acquisition: the client is
\* closed when the function returns, whatever it returns.
deferClose(acquired, err) == acquired

\* What one call of removeMemberForNonExistingNode did (att) and the member
\* list it leaves (ms).
Attempt(name, listed, err, acquired, rmId, ms) ==
    [att |-> [name |-> name, listed |-> listed, err |-> err, acquired |-> acquired,
              closed |-> deferClose(acquired, err), rmId |-> rmId],
     ms |-> ms]

removeMemberForNonExistingNode_NoRemoveMember(ms, ld, ns, name, orc) ==
    LET items == getControlPlaneNodes(ns)
        remainingNodes == SelectSeq(items, LAMBDA n : n # name)
        etcdClient == forFirstAvailableNode(orc.up, ld, remainingNodes)
    IN IF ~orc.nodesOk THEN Attempt(name, -1, ErrListNodes, FALSE, 0, ms)
       ELSE IF BelowQuorumFloor(items)
         THEN Attempt(name, Len(items), ErrControlPlaneMinNodes, FALSE, 0, ms)
       ELSE IF ~etcdClient.ok
         THEN Attempt(name, Len(items), ErrCreateClient, FALSE, 0, ms)
       ELSE IF etcdClient.peer \in orc.membersFail
         THEN Attempt(name, Len(items), ErrListMembers, TRUE, 0, ms)
       ELSE Attempt(name, Len(items), NoErr, TRUE, 0, ms)

removeMemberForNonExistingNode(ms, ld, ns, name, orc) ==
    LET items == getControlPlaneNodes(ns)
        remainingNodes == SelectSeq(items, LAMBDA n : n # name)
        etcdClient == forFirstAvailableNode(orc.up, ld, remainingNodes)
        member == MemberForName(MembersList(ms), name)
    IN IF ~orc.nodesOk THEN Attempt(name, -1, ErrListNodes, FALSE, 0, ms)
       ELSE IF BelowQuorumFloor(items)
         THEN Attempt(name, Len(items), ErrControlPlaneMinNodes, FALSE, 0, ms)
       ELSE IF ~etcdClient.ok
         THEN Attempt(name, Len(items), ErrCreateClient, FALSE, 0, ms)
       ELSE IF etcdClient.peer \in orc.membersFail
         THEN Attempt(name, Len(items), ErrListMembers, TRUE, 0, ms)
       ELSE IF member = NoMember
         THEN Attempt(name, Len(items), NoErr, TRUE, 0, ms)
       ELSE IF name = orc.removeFail
         THEN Attempt(name, Len(items), ErrRemoveMember, TRUE, member.id, ms)
       ELSE Attempt(name, Len(items), NoErr, TRUE, member.id, ms \ {member})

(***************************************************************************)
(* MembershipReconciler                                                    *)
(***************************************************************************)
IsRemovalCandidate_IgnoresNodeNames(curNodeName, nodeNames) == curNodeName # ""

IsRemovalCandidate_NoPendingCheck(curNodeName, nodeNames) ==
    curNodeName \notin Range(nodeNames)

\* The member loop's two skips: an empty derived name, and a name that is
\* among nodeNames.
IsRemovalCandidate(curNodeName, nodeNames) ==
    curNodeName # "" /\ curNodeName \notin Range(nodeNames)

\* The member loop of reconcileEtcdMember from the i-th member of the list on,
\* with the removed names, errors and removal attempts so far.
RECURSIVE loopmembers(_, _, _, _, _, _, _, _, _, _)

loopmembersRemoved_StopOnError(list, i, ld, ns, nodeNames, orc, removedMembers, errs, attempts, r) ==
    IF r.att.err # NoErr
    THEN [ms |-> r.ms, removedMembers |-> Append(removedMembers, r.att.name),
          errs |-> Append(errs, r.att.err), attempts |-> Append(attempts, r.att)]
    ELSE loopmembers(list, i + 1, r.ms, ld, ns, nodeNames, orc,
                     Append(removedMembers, r.att.name), errs,
                     Append(attempts, r.att))

\* The end of one iteration: r is what removeMemberForNonExistingNode did.
loopmembersRemoved(list, i, ld, ns, nodeNames, orc, removedMembers, errs, attempts, r) ==
    loopmembers(list, i + 1, r.ms, ld, ns, nodeNames, orc,
                Append(removedMembers, r.att.name),
                IF r.att.err = NoErr THEN errs ELSE Append(errs, r.att.err),
                Append(attempts, r.att))

loopmembers(list, i, ms, ld, ns, nodeNames, orc, removedMembers, errs, attempts) ==
    IF i > Len(list)
    THEN [ms |-> ms, removedMembers |-> removedMembers, errs |-> errs,
          attempts |-> attempts]
    ELSE IF ~IsRemovalCandidate(NodeNameFromMember(list[i]), nodeNames)
    THEN loopmembers(list, i + 1, ms, ld, ns, nodeNames, orc,
                     removedMembers, errs, attempts)
    ELSE loopmembersRemoved(list, i, ld, ns, nodeNames, orc,
                            removedMembers, errs, attempts,
                            removeMemberForNonExistingNode(
                                ms, ld, ns, NodeNameFromMember(list[i]),
                                AtAttempt(orc, Len(attempts) + 1,
                                          NodeNameFromMember(list[i]))))

\* What reconcileEtcdMember did for one node: whether it got a client and the
\* member list, and what it returns.
NodeStep(nodeName, client, listed, removedMembers, errs) ==
    [nodeName |-> nodeName, client |-> client,
     closed |-> deferClose(client, IF listed THEN NoErr ELSE ErrListMembers),
     listed |-> listed,
     removedMembers |-> removedMembers, errs |-> errs]

NodeDone(nodeName, r) ==
    [ms |-> r.ms, attempts |-> r.attempts,
     step |-> NodeStep(nodeName, TRUE, TRUE, r.removedMembers, r.errs)]

IndexOf(nodeNames, nodeName) ==
    CHOOSE i \in 1..Len(nodeNames) : nodeNames[i] = nodeName

reconcileEtcdMember_Abort(ms, ld, ns, nodeNames, nodeName, orc) ==
    LET here == AtNode(orc, IndexOf(nodeNames, nodeName))
        own == AtAttempt(here, 0, "")
        etcdClient == forFirstAvailableNode(own.up, ld, <<nodeName>>)
    IN IF ~etcdClient.ok
       THEN [ms |-> ms, attempts |-> <<>>,
             step |-> NodeStep(nodeName, FALSE, FALSE, <<nodeName>>, <<ErrCreateClient>>)]
       ELSE IF etcdClient.peer \in own.membersFail
       THEN [ms |-> ms, attempts |-> <<>>,
             step |-> NodeStep(nodeName, TRUE, FALSE, <<nodeName>>, <<ErrListMembers>>)]
       ELSE NodeDone(nodeName,
                     loopmembers(MembersList(ms), 1, ms, ld, ns, nodeNames, here,
                                 <<>>, <<>>, <<>>))

\* here: the collaborators from this node's turn on; own: as the node's own
\* client acquisition and member listing find them.
reconcileEtcdMember(ms, ld, ns, nodeNames, nodeName, orc) ==
    LET here == AtNode(orc, IndexOf(nodeNames, nodeName))
        own == AtAttempt(here, 0, "")
        etcdClient == forFirstAvailableNode(own.up, ld, <<nodeName>>)
    IN IF ~etcdClient.ok
       THEN [ms |-> ms, attempts |-> <<>>,
             step |-> NodeStep(nodeName, FALSE, FALSE, <<>>, <<>>)]
       ELSE IF etcdClient.peer \in own.membersFail
       THEN [ms |-> ms, attempts |-> <<>>,
             step |-> NodeStep(nodeName, TRUE, FALSE, <<>>, <<>>)]
       ELSE NodeDone(nodeName,
                     loopmembers(MembersList(ms), 1, ms, ld, ns, nodeNames, here,
                                 <<>>, <<>>, <<>>))

\* The loop of ReconcileEtcdMembers from the i-th node name on.
RECURSIVE ReconcileFrom(_, _, _, _, _, _)

\* The end of one iteration: r is what reconcileEtcdMember did.
ReconcileAppend(ld, ns, nodeNames, i, orc, acc, r) ==
    ReconcileFrom(ld, ns, nodeNames, i + 1, orc,
        [ms |-> r.ms,
         allRemovedMembers |-> acc.allRemovedMembers \o r.step.removedMembers,
         allErrs |-> acc.allErrs \o r.step.errs,
         perNode |-> Append(acc.perNode, r.step),
         attempts |-> acc.attempts \o r.attempts])

ReconcileFrom(ld, ns, nodeNames, i, orc, acc) ==
    IF i > Len(nodeNames) THEN acc
    ELSE ReconcileAppend(ld, ns, nodeNames, i, orc, acc,
             reconcileEtcdMember(acc.ms, ld, ns, nodeNames, nodeNames[i], orc))

\* kerrors.NewAggregate: nil for a list without errors, else one error that
\* holds every error of the list, in order.
NewAggregate(errlist) ==
    LET errors == SelectSeq(errlist, LAMBDA e : e # NoErr)
    IN [isNil |-> errors = <<>>, errors |-> errors]

\* ReconcileEtcdMembers: the removed names and the errors to aggregate.
ReconcileEtcdMembers(ms, ld, ns, nodeNames, orc) ==
    ReconcileFrom(ld, ns, nodeNames, 1, orc,
        [ms |-> ms, allRemovedMembers |-> <<>>, allErrs |-> <<>>, perNode |-> <<>>,
         attempts |-> <<>>])

(***************************************************************************)
(* NodeDecommissioner                                                      *)
(***************************************************************************)
Removal(done, err, listed, patchCalls, ns) ==
    [done |-> done, err |-> err, listed |-> listed, patchCalls |-> patchCalls, ns |-> ns]

\* patchHelper.Patch: writes to the Node the annotations that differ between
\* the snapshot taken by patch.NewHelper and the object as modified since.
Patch(ns, name, before, after) ==
    [ns EXCEPT ![name] =
        [isNil |-> FALSE,
         m |-> [k \in AnnotationKeys |->
                  IF after.m[k] # before.m[k] THEN after.m[k] ELSE ns[name].m[k]]]]

AlreadyRemoved_Never(annotations) == FALSE

AlreadyRemoved_OnRequest(annotations) == HasAnnotation(annotations, EtcdRemoveAnnotation)

\* if _, ok := annotations[EtcdRemovedNodeAnnotation]; ok
AlreadyRemoved(annotations) == HasAnnotation(annotations, EtcdRemovedNodeAnnotation)

SetRemoveAnnotation_Fresh(annotations) ==
    [isNil |-> FALSE,
     m |-> [k \in AnnotationKeys |-> IF k = EtcdRemoveAnnotation THEN "true" ELSE Absent]]

\* annotations[EtcdRemoveAnnotation] = "true"; removingNode.SetAnnotations(annotations)
SetRemoveAnnotation(annotations) ==
    [isNil |-> FALSE, m |-> [annotations.m EXCEPT ![EtcdRemoveAnnotation] = "true"]]

removeMemberForNode(ns, name, orc) ==
    LET items == getControlPlaneNodes(ns)
        found == name \in Range(items)
        \* var removingNode corev1.Node stays the zero Node when no name matches
        removingNodeName == IF found THEN name ELSE ""
        annotations == IF found THEN ns[name] ELSE NilAnnotations
        modified == SetRemoveAnnotation(annotations)
    IN IF ~orc.nodesOk THEN Removal(FALSE, ErrListNodes, -1, 0, ns)
       ELSE IF BelowQuorumFloor(items)
         THEN Removal(FALSE, ErrControlPlaneMinNodes, Len(items), 0, ns)
       ELSE IF removingNodeName # name
         THEN Removal(FALSE, ErrNodeNotFound, Len(items), 0, ns)
       ELSE IF AlreadyRemoved(annotations)
         THEN Removal(TRUE, NoErr, Len(items), 0, ns)
       ELSE IF orc.patch = "helperErr"
         THEN Removal(FALSE, ErrPatchHelper, Len(items), 0, ns)
       ELSE IF annotations.isNil
         THEN Removal(FALSE, Panic, Len(items), 0, ns)
       ELSE IF orc.patch = "patchErr"
         THEN Removal(FALSE, ErrPatch, Len(items), 1, ns)
       ELSE Removal(FALSE, NoErr, Len(items), 1, Patch(ns, name, annotations, modified))

RemoveEtcdMemberForMachine(ns, machine, orc) ==
    IF machine.isNil \/ ~machine.hasRef
    THEN Removal(TRUE, NoErr, -1, 0, ns)
    ELSE removeMemberForNode(ns, machine.name, orc)

(***************************************************************************)
(* LeadershipForwarder                                                     *)
(***************************************************************************)
Forwarding(err, listed, acquired, membersCalls, moveTo, ld) ==
    [err |-> err, listed |-> listed, acquired |-> acquired,
     closed |-> deferClose(acquired, err),
     membersCalls |-> membersCalls, moveTo |-> moveTo, leader |-> ld]

NotLeader_NilOnly(currentMember, LeaderID) == currentMember = NoMember

nextLeaderFor_First(list, leaderCandidate) ==
    IF list = <<>> THEN NoMember ELSE list[1]

\* nextLeader := etcdutil.MemberForName(members, leaderCandidate.Status.NodeRef.Name)
nextLeaderFor(list, leaderCandidate) == MemberForName(list, leaderCandidate.name)

\* currentMember == nil || currentMember.ID != etcdClient.LeaderID
NotLeader(currentMember, LeaderID) ==
    currentMember = NoMember \/ currentMember.id # LeaderID

ForwardEtcdLeadership_LateCandidateCheck(ms, ld, ns, machine, leaderCandidate, orc) ==
    LET nodeNames == getControlPlaneNodes(ns)
        etcdClient == forLeader(orc.up, ms, ld, nodeNames)
        list == MembersList(ms)
        currentMember == MemberForName(list, machine.name)
        nextLeader == nextLeaderFor(list, leaderCandidate)
    IN IF machine.isNil \/ ~machine.hasRef
         THEN Forwarding(NoErr, FALSE, FALSE, 0, 0, ld)
       ELSE IF ~orc.nodesOk
         THEN Forwarding(ErrListNodes, FALSE, FALSE, 0, 0, ld)
       ELSE IF ~etcdClient.ok
         THEN Forwarding(ErrCreateClient, TRUE, FALSE, 0, 0, ld)
       ELSE IF etcdClient.peer \in orc.membersFail
         THEN Forwarding(ErrListMembers, TRUE, TRUE, 1, 0, ld)
       ELSE IF NotLeader(currentMember, etcdClient.LeaderID)
         THEN Forwarding(NoErr, TRUE, TRUE, 1, 0, ld)
       ELSE IF leaderCandidate.isNil
         THEN Forwarding(ErrCandidateNil, TRUE, TRUE, 1, 0, ld)
       ELSE IF ~leaderCandidate.hasRef
         THEN Forwarding(ErrCandidateNoNode, TRUE, TRUE, 1, 0, ld)
       ELSE IF nextLeader = NoMember
         THEN Forwarding(ErrNoCandidateMember, TRUE, TRUE, 1, 0, ld)
       ELSE IF ~orc.moveOk
         THEN Forwarding(ErrMoveLeader, TRUE, TRUE, 1, nextLeader.id, ld)
       ELSE Forwarding(NoErr, TRUE, TRUE, 1, nextLeader.id, nextLeader.id)

ForwardEtcdLeadership(ms, ld, ns, machine, leaderCandidate, orc) ==
    LET nodeNames == getControlPlaneNodes(ns)
        etcdClient == forLeader(orc.up, ms, ld, nodeNames)
        list == MembersList(ms)
        currentMember == MemberForName(list, machine.name)
        nextLeader == nextLeaderFor(list, leaderCandidate)
    IN IF machine.isNil \/ ~machine.hasRef
         THEN Forwarding(NoErr, FALSE, FALSE, 0, 0, ld)
       ELSE IF leaderCandidate.isNil
         THEN Forwarding(ErrCandidateNil, FALSE, FALSE, 0, 0, ld)
       ELSE IF ~leaderCandidate.hasRef
         THEN Forwarding(ErrCandidateNoNode, FALSE, FALSE, 0, 0, ld)
       ELSE IF ~orc.nodesOk
         THEN Forwarding(ErrListNodes, FALSE, FALSE, 0, 0, ld)
       ELSE IF ~etcdClient.ok
         THEN Forwarding(ErrCreateClient, TRUE, FALSE, 0, 0, ld)
       ELSE IF etcdClient.peer \in orc.membersFail
         THEN Forwarding(ErrListMembers, TRUE, TRUE, 1, 0, ld)
       ELSE IF NotLeader(currentMember, etcdClient.LeaderID)
         THEN Forwarding(NoErr, TRUE, TRUE, 1, 0, ld)
       ELSE IF nextLeader = NoMember
         THEN Forwarding(ErrNoCandidateMember, TRUE, TRUE, 1, 0, ld)
       ELSE IF ~orc.moveOk
         THEN Forwarding(ErrMoveLeader, TRUE, TRUE, 1, nextLeader.id, ld)
       ELSE Forwarding(NoErr, TRUE, TRUE, 1, nextLeader.id, nextLeader.id)

(***************************************************************************)
(* The state machine: calls into the package are serialized, each call is  *)
(* one step; between calls the cluster changes.                            *)
(***************************************************************************)
Procs == {1, 2}

NoCall == [op |-> "none"]

\* The node names a caller passes: distinct names, in any order.
NodeNameSeqs ==
    {s \in UNION {[1..n -> Names] : n \in 0..MaxNodeNames} :
        \A i, j \in 1..Len(s) : s[i] = s[j] => i = j}

NoFault ==
    [up |-> Names, nodesOk |-> TRUE, membersFail |-> {}, removeFail |-> "none",
     patch |-> "ok", moveOk |-> TRUE, cancel |-> NoCancel]
\* During one call the collaborators fail in one way: an RPC of one kind
\* fails, or some set of peers is out of reach.
OneFault ==
    {NoFault, [NoFault EXCEPT !.nodesOk = FALSE]}
    \cup {[NoFault EXCEPT !.membersFail = {n}] : n \in Names}
    \cup {[NoFault EXCEPT !.removeFail = n] : n \in Names}
ReconcileOracles ==
    OneFault
    \cup {[NoFault EXCEPT !.up = u] : u \in SUBSET Names}
    \cup {[NoFault EXCEPT !.cancel = c] : c \in Cancels}
RemoveOracles ==
    {[NoFault EXCEPT !.nodesOk = ok, !.patch = p] :
        ok \in BOOLEAN, p \in {"ok", "helperErr", "patchErr"}}
ForwardOracles ==
    {NoFault, [NoFault EXCEPT !.nodesOk = FALSE], [NoFault EXCEPT !.up = {}],
     [NoFault EXCEPT !.membersFail = Names], [NoFault EXCEPT !.moveOk = FALSE]}

\* etcd elects a leader among the started members when the leader is gone.
NewLeaders(ms, ld) ==
    IF \E m \in ms : m.id = ld THEN {ld}
    ELSE LET started == {m.id : m \in {x \in ms : x.name # ""}}
         IN IF started = {} THEN {0} ELSE started

\* A removal this package accepted for a live Node stays pending until the
\* Node leaves; accepting one while another is pending is an overlap.
Accept(st, n, live) ==
    IF n \in live
    THEN [pending |-> st.pending \cup {n},
          overlap |-> st.overlap \/ st.pending \ {n} # {}]
    ELSE st

RECURSIVE AcceptAll(_, _, _, _)
AcceptAll(st, attempts, i, live) ==
    IF i > Len(attempts) THEN st
    ELSE AcceptAll(IF attempts[i].rmId # 0 /\ attempts[i].err = NoErr
                   THEN Accept(st, attempts[i].name, live) ELSE st,
                   attempts, i + 1, live)

NoTarget == [path |-> "none", name |-> ""]
NoListing == [n \in {} |-> NilAnnotations]

Idle == UNCHANGED <<serial, pc, target, seen, hasty, prev>>

\* The clients a call leaves open: those of the input nodes (perNode) and
\* those of the removal attempts.
LeftOpen(perNode, attempts) ==
    Cardinality({i \in 1..Len(perNode) : perNode[i].client /\ ~perNode[i].closed})
    + Cardinality({i \in 1..Len(attempts) : attempts[i].acquired /\ ~attempts[i].closed})

Init ==
    /\ nodes \in [{"a", "b"} -> {NilAnnotations, PlainAnnotations}]
    /\ members = {[id |-> 1, name |-> "a"], [id |-> 2, name |-> "b"]}
    /\ leader \in {1, 2}
    /\ nextId = 3
    /\ joins = 0
    /\ pending = {}
    /\ overlap = FALSE
    /\ last = NoCall
    /\ serial = TRUE
    /\ pc = [p \in Procs |-> "idle"]
    /\ target = [p \in Procs |-> NoTarget]
    /\ seen = [p \in Procs |-> NoListing]
    /\ hasty = FALSE
    /\ open = 0
    /\ prev = NoCall

\* The cluster as a call finds it.
Cluster == [nodes |-> nodes, members |-> members, leader |-> leader]

\* r is what the call did, st the removals pending after it.
ReconcileDone(nodeNames, orc, r, st) ==
    /\ last = NoCall
    /\ open < MaxOpenClients
    /\ open' = open + LeftOpen(r.perNode, r.attempts)
    /\ members' = r.ms
    /\ leader' \in NewLeaders(r.ms, leader)
    /\ pending' = st.pending
    /\ overlap' = st.overlap
    /\ last' = [op |-> "Reconcile", before |-> Cluster, nodeNames |-> nodeNames,
                removed |-> r.allRemovedMembers, errs |-> r.allErrs,
                err |-> NewAggregate(r.allErrs), cancel |-> orc.cancel,
                perNode |-> r.perNode, attempts |-> r.attempts]
    /\ UNCHANGED <<nodes, nextId, joins>>
    /\ Idle

ReconcileAccept(nodeNames, orc, r) ==
    ReconcileDone(nodeNames, orc, r,
                  AcceptAll([pending |-> pending, overlap |-> overlap],
                            r.attempts, 1, DOMAIN nodes))

Reconcile ==
    \E nodeNames \in NodeNameSeqs, orc \in ReconcileOracles :
      ReconcileAccept(nodeNames, orc,
                      ReconcileEtcdMembers(members, leader, nodes, nodeNames, orc))

RemoveForMachineDone(machine, r) ==
    LET accepted == r.patchCalls = 1 /\ r.err = NoErr
        st == IF accepted
              THEN Accept([pending |-> pending, overlap |-> overlap],
                          machine.name, DOMAIN nodes)
              ELSE [pending |-> pending, overlap |-> overlap]
    IN /\ last = NoCall
       /\ nodes' = r.ns
       /\ pending' = st.pending
       /\ overlap' = st.overlap
       /\ last' = [op |-> "RemoveForMachine", before |-> Cluster,
                   machine |-> machine, done |-> r.done,
                   err |-> r.err, listed |-> r.listed, patchCalls |-> r.patchCalls]
       /\ UNCHANGED <<members, leader, nextId, joins, open>>
       /\ Idle

RemoveForMachine ==
    \E machine \in Machines, orc \in RemoveOracles :
      RemoveForMachineDone(machine, RemoveEtcdMemberForMachine(nodes, machine, orc))

ForwardDone(machine, leaderCandidate, r) ==
    /\ last = NoCall
    /\ open < MaxOpenClients
    /\ open' = open + (IF r.acquired /\ ~r.closed THEN 1 ELSE 0)
    /\ leader' = r.leader
    /\ last' = [op |-> "Forward", before |-> Cluster, machine |-> machine,
                leaderCandidate |-> leaderCandidate, err |-> r.err,
                listed |-> r.listed, acquired |-> r.acquired, closed |-> r.closed,
                membersCalls |-> r.membersCalls, moveTo |-> r.moveTo,
                LeaderID |-> leader]
    /\ UNCHANGED <<nodes, members, nextId, joins, pending, overlap>>
    /\ Idle

Forward ==
    \E machine \in Machines, leaderCandidate \in Machines, orc \in ForwardOracles :
      ForwardDone(machine, leaderCandidate,
                  ForwardEtcdLeadership(members, leader, nodes, machine,
                                        leaderCandidate, orc))

\* A Node whose removal this package accepted leaves the cluster.
NodeLeaves ==
    \E n \in pending :
      /\ last = NoCall
      /\ nodes' = [x \in DOMAIN nodes \ {n} |-> nodes[x]]
      /\ pending' = pending \ {n}
      /\ last' = NoCall
      /\ UNCHANGED <<members, leader, nextId, joins, overlap, open>>
      /\ Idle

\* The agent on a Node that carries the remove request removes its own etcd
\* member and acknowledges with the removed annotation.
AgentAck ==
    \E n \in DOMAIN nodes :
      /\ last = NoCall
      /\ nodes[n].m[EtcdRemoveAnnotation] = "true"
      /\ nodes[n].m[EtcdRemovedNodeAnnotation] = Absent
      /\ nodes' = [nodes EXCEPT ![n].m[EtcdRemovedNodeAnnotation] = n]
      /\ LET own == MemberForName(MembersList(members), n)
         IN /\ members' = members \ {own}
            /\ leader' \in NewLeaders(members \ {own}, leader)
      /\ last' = NoCall
      /\ UNCHANGED <<nextId, joins, pending, overlap, open>>
      /\ Idle

\* A member is added to the cluster configuration; it has no name until it starts.
MemberJoin ==
    /\ last = NoCall
    /\ joins < MaxJoins
    /\ members' = members \cup {[id |-> nextId, name |-> ""]}
    /\ nextId' = nextId + 1
    /\ joins' = joins + 1
    /\ last' = NoCall
    /\ UNCHANGED <<nodes, leader, pending, overlap, open>>
    /\ Idle

MemberStart ==
    \E m \in members, n \in Names :
      /\ last = NoCall
      /\ m.name = ""
      /\ members' = (members \ {m}) \cup {[id |-> m.id, name |-> n]}
      /\ leader' = IF leader = 0 THEN m.id ELSE leader
      /\ last' = NoCall
      /\ UNCHANGED <<nodes, nextId, joins, pending, overlap, open>>
      /\ Idle

\* The caller takes the result of the call.
Return ==
    /\ last # NoCall
    /\ last' = NoCall
    /\ UNCHANGED <<nodes, members, leader, nextId, joins, pending, overlap, open>>
    /\ Idle

Next ==
    \/ Reconcile
    \/ RemoveForMachine
    \/ Forward
    \/ NodeLeaves
    \/ AgentAck
    \/ MemberJoin
    \/ MemberStart
    \/ Return

Spec == Init /\ [][Next]_vars

(***************************************************************************)
(* A caller that reconciles on every tick: it keeps what the previous call *)
(* was given and the member list that call left.                           *)
(***************************************************************************)
ReturnRemember ==
    /\ last # NoCall
    /\ prev' = [op |-> last.op, nodeNames |-> last.nodeNames,
                removedAny |-> last.removed # <<>>, members |-> members]
    /\ last' = NoCall
    /\ UNCHANGED <<nodes, members, leader, nextId, joins, pending, overlap, open,
                   serial, pc, target, seen, hasty>>

NextRepeat ==
    \/ Reconcile
    \/ ReturnRemember
    \/ NodeLeaves
    \/ MemberJoin
    \/ MemberStart

SpecRepeat == Init /\ [][NextRepeat]_vars

(***************************************************************************)
(* A caller that reconciles on every tick with one fixed, non-empty list   *)
(* of node names, in a cluster whose Nodes stay. The caller ticks again    *)
(* whenever it can, and every call returns; the collaborators may fail on  *)
(* any tick.                                                               *)
(***************************************************************************)
FixedNodeNames(nodeNames) ==
    /\ nodeNames # <<>>
    /\ prev # NoCall => nodeNames = prev.nodeNames

Tick ==
    \E nodeNames \in NodeNameSeqs, orc \in ReconcileOracles :
      /\ FixedNodeNames(nodeNames)
      /\ ReconcileAccept(nodeNames, orc,
                         ReconcileEtcdMembers(members, leader, nodes, nodeNames, orc))

\* Tick can be taken: no call is in progress and a client can be opened.
TickPossible == last = NoCall /\ open < MaxOpenClients

NextLive ==
    \/ Tick
    \/ ReturnRemember
    \/ MemberJoin
    \/ MemberStart

\* Strong fairness of Tick, with its enabling condition written out, and
\* weak fairness of the return.
SpecLive ==
    /\ Init /\ [][NextLive]_vars
    /\ WF_vars(ReturnRemember)
    /\ <>[]~TickPossible \/ []<><<Tick>>_vars

(***************************************************************************)
(* Concurrent callers: the package takes no lock, so a call of one caller  *)
(* interleaves with the calls of another at its RPCs: the listing of the   *)
(* Nodes, the quorum check on that listing, and the removal.               *)
(***************************************************************************)
InitConc ==
    /\ nodes = [n \in Names |-> PlainAnnotations]
    /\ members = {[id |-> 1, name |-> "a"], [id |-> 2, name |-> "b"],
                  [id |-> 3, name |-> "c"]}
    /\ leader = 1
    /\ nextId = 4
    /\ joins = 0
    /\ pending = {}
    /\ overlap = FALSE
    /\ last = NoCall
    /\ serial \in BOOLEAN
    /\ pc = [p \in Procs |-> "idle"]
    /\ target = [p \in Procs |-> NoTarget]
    /\ seen = [p \in Procs |-> NoListing]
    /\ hasty = FALSE
    /\ open = 0
    /\ prev = NoCall

Unused == UNCHANGED <<nextId, joins, overlap, last, serial, prev>>

\* A caller enters removeMemberForNode (path "node") or
\* removeMemberForNonExistingNode (path "member"); serializing callers wait
\* until no other call is in flight.
CallStart(p) ==
    \E path \in {"node", "member"}, name \in Names :
      /\ pc[p] = "idle"
      /\ serial => \A q \in Procs \ {p} : pc[q] = "idle"
      /\ pc' = [pc EXCEPT ![p] = "called"]
      /\ target' = [target EXCEPT ![p] = [path |-> path, name |-> name]]
      /\ hasty' = (hasty \/ pending # {})
      /\ UNCHANGED <<nodes, members, leader, pending, seen, open>>
      /\ Unused

\* w.getControlPlaneNodes(ctx)
ListNodes(p) ==
    /\ pc[p] = "called"
    /\ seen' = [seen EXCEPT ![p] = nodes]
    /\ pc' = [pc EXCEPT ![p] = "listed"]
    /\ UNCHANGED <<nodes, members, leader, pending, target, hasty, open>>
    /\ Unused

Finish(p) ==
    /\ pc' = [pc EXCEPT ![p] = "idle"]
    /\ target' = [target EXCEPT ![p] = NoTarget]
    /\ seen' = [seen EXCEPT ![p] = NoListing]

\* The quorum check on the listing: the call returns ErrControlPlaneMinNodes,
\* or goes on.
CheckFloor(p) ==
    /\ pc[p] = "listed"
    /\ IF BelowQuorumFloor(getControlPlaneNodes(seen[p]))
       THEN Finish(p)
       ELSE pc' = [pc EXCEPT ![p] = "checked"] /\ UNCHANGED <<target, seen>>
    /\ UNCHANGED <<nodes, members, leader, pending, hasty, open>>
    /\ Unused

\* The rest of removeMemberForNode on the listing the caller holds; the patch
\* reaches the Node as it is now, and fails when the Node is gone.
PatchNodeDone(p, name, r) ==
    LET accepted == r.patchCalls = 1 /\ r.err = NoErr /\ name \in DOMAIN nodes
    IN /\ nodes' = IF accepted
                   THEN Patch(nodes, name, seen[p][name], r.ns[name])
                   ELSE nodes
       /\ pending' = IF accepted THEN pending \cup {name} ELSE pending
       /\ Finish(p)
       /\ UNCHANGED <<members, leader, hasty, open>>
       /\ Unused

PatchNode(p) ==
    /\ pc[p] = "checked"
    /\ target[p].path = "node"
    /\ PatchNodeDone(p, target[p].name,
                     removeMemberForNode(seen[p], target[p].name, NoFault))

\* The rest of removeMemberForNonExistingNode on the listing the caller holds
\* and the member list as it is now.
RemoveMemberDone(p, name, r) ==
    LET accepted == r.att.rmId # 0 /\ r.att.err = NoErr /\ name \in DOMAIN nodes
    IN /\ open < MaxOpenClients
       /\ open' = open + LeftOpen(<<>>, <<r.att>>)
       /\ members' = r.ms
       /\ leader' \in NewLeaders(r.ms, leader)
       /\ pending' = IF accepted THEN pending \cup {name} ELSE pending
       /\ Finish(p)
       /\ UNCHANGED <<nodes, hasty>>
       /\ Unused

RemoveMember(p) ==
    /\ pc[p] = "checked"
    /\ target[p].path = "member"
    /\ RemoveMemberDone(p, target[p].name,
                        removeMemberForNonExistingNode(members, leader, seen[p],
                                                       target[p].name, NoFault))

NextConc ==
    \/ \E p \in Procs : CallStart(p)
    \/ \E p \in Procs : ListNodes(p)
    \/ \E p \in Procs : CheckFloor(p)
    \/ \E p \in Procs : RemoveMember(p)
    \/ \E p \in Procs : PatchNode(p)
    \/ NodeLeaves
    \/ AgentAck

SpecConc == InitConc /\ [][NextConc]_vars

(***************************************************************************)
(* Properties                                                              *)
(***************************************************************************)
Live == DOMAIN nodes
Before == last.before
Count(seq, x) == Cardinality({i \in 1..Len(seq) : seq[i] = x})

\* The members whose non-empty derived name is not among nodeNames.
Orphans(ms, nodeNames) == {m \in ms : m.name # "" /\ m.name \notin Range(nodeNames)}

\* C1, as claimed: while every accepted removal lands before the next one is
\* accepted, the number of live control-plane Nodes never drops below 2.
C1_NeverBelowTwo == ~overlap => Cardinality(Live) >= MinControlPlaneNodes

\* C1, amended: while every accepted removal lands before the next one is
\* accepted, the number of live control-plane Nodes never drops below 1: a
\* removal is refused only when fewer than 2 Nodes are listed.
C1_NeverBelowOne == ~overlap => Cardinality(Live) >= MinControlPlaneNodes - 1

\* A removal landed, one Node is left and the next removal is refused.
C1_Witness ==
    /\ ~overlap
    /\ Cardinality(Live) = 1
    /\ last.op = "RemoveForMachine"
    /\ last.err = ErrControlPlaneMinNodes

\* A Reconcile call for some node names in which every input node gave a
\* client and a member list, at least 2 control-plane Nodes were live and
\* nothing failed.
C2_AllSucceeded ==
    /\ last.op = "Reconcile"
    /\ last.nodeNames # <<>>
    /\ \A i \in 1..Len(last.perNode) : last.perNode[i].client /\ last.perNode[i].listed
    /\ Cardinality(DOMAIN Before.nodes) >= MinControlPlaneNodes
    /\ last.errs = <<>>

\* C2, as claimed: such a call removes exactly the orphaned members and
\* returns each orphaned name exactly once.
C2_RemovesOrphansOnce ==
    C2_AllSucceeded =>
        LET orphans == Orphans(Before.members, last.nodeNames)
        IN /\ Before.members \ members = orphans
           /\ Range(last.removed) = {m.name : m \in orphans}
           /\ \A n \in Range(last.removed) : Count(last.removed, n) = 1

\* C2, amended: such a call removes exactly the orphaned members and returns
\* one entry per orphaned member, so a name carried by k orphaned members is
\* returned k times.
C2_RemovesOrphans ==
    C2_AllSucceeded =>
        LET orphans == Orphans(Before.members, last.nodeNames)
        IN /\ Before.members \ members = orphans
           /\ \A n \in Names \cup {""} :
                Count(last.removed, n) = Cardinality({m \in orphans : m.name = n})

\* Nodes {a, b} with members {a, b, c}: c is removed and ["c"] returned.
C2_Witness ==
    /\ C2_AllSucceeded
    /\ last.nodeNames = <<"a", "b">>
    /\ {m.name : m \in Before.members} = {"a", "b", "c"}
    /\ last.removed = <<"c">>
    /\ {m.name : m \in members} = {"a", "b"}

\* C3: no call removes a member whose derived name is empty, no RemoveMember
\* of Reconcile targets one, and the list Reconcile returns holds no empty name.
C3_PendingMemberProtected ==
    last # NoCall =>
        /\ \A m \in Before.members : m.name = "" => m \in members
        /\ last.op = "Reconcile" =>
             /\ "" \notin Range(last.removed)
             /\ \A i \in 1..Len(last.attempts) :
                  /\ last.attempts[i].name # ""
                  /\ \A m \in Before.members :
                       m.name = "" => last.attempts[i].rmId # m.id

\* Reconcile removed an orphan while a member without a name was in the list.
C3_Witness ==
    /\ last.op = "Reconcile"
    /\ \E m \in Before.members : m.name = "" /\ m \in members
    /\ Before.members # members

\* C4: when the listing returns fewer than 2 Nodes, requestRemoval and the
\* direct removal return the quorum-floor error, patch nothing, acquire no
\* etcd client, issue no RemoveMember and leave Nodes and members as they were.
C4_BelowFloorRefused ==
    /\ (last.op = "RemoveForMachine" /\ last.listed \in 0..(MinControlPlaneNodes - 1)) =>
          /\ ~last.done
          /\ last.err = ErrControlPlaneMinNodes
          /\ last.patchCalls = 0
          /\ nodes = Before.nodes
          /\ members = Before.members
    /\ last.op = "Reconcile" =>
          /\ \A i \in 1..Len(last.attempts) :
               last.attempts[i].listed \in 0..(MinControlPlaneNodes - 1) =>
                  /\ last.attempts[i].err = ErrControlPlaneMinNodes
                  /\ ~last.attempts[i].acquired
                  /\ last.attempts[i].rmId = 0
          /\ Cardinality(DOMAIN Before.nodes) < MinControlPlaneNodes =>
               /\ nodes = Before.nodes
               /\ members = Before.members

\* With one Node left, the direct removal of an orphan is refused.
C4_Witness ==
    /\ last.op = "Reconcile"
    /\ Cardinality(DOMAIN Before.nodes) = 1
    /\ \E i \in 1..Len(last.attempts) :
         last.attempts[i].err = ErrControlPlaneMinNodes

\* The Node a RemoveForMachine call names, as the call found it.
Named == Before.nodes[last.machine.name]

\* A RemoveForMachine call for a Node that the listing returned.
RequestForListedNode ==
    /\ last.op = "RemoveForMachine"
    /\ HasNodeRef(last.machine)
    /\ last.listed >= 0
    /\ last.machine.name \in DOMAIN Before.nodes

\* C5: requestRemoval for a listed Node that carries neither etcd annotation,
\* with at least 2 Nodes listed and no failure of the patch RPCs, returns
\* (false, nil) and leaves the remove annotation "true" on that Node.
C5_RequestAnnotates ==
    (/\ RequestForListedNode
     /\ last.listed >= MinControlPlaneNodes
     /\ ~HasAnnotation(Named, EtcdRemoveAnnotation)
     /\ ~HasAnnotation(Named, EtcdRemovedNodeAnnotation)
     /\ last.err \notin {ErrPatchHelper, ErrPatch}) =>
        /\ ~last.done
        /\ last.err = NoErr
        /\ nodes[last.machine.name].m[EtcdRemoveAnnotation] = "true"

\* C6, as claimed: requestRemoval for a listed Node that carries the removed
\* annotation returns (true, nil) and issues no patch call, whatever else the
\* state of the cluster is.
C6_RemovedIsTerminalAlways ==
    (RequestForListedNode /\ HasAnnotation(Named, EtcdRemovedNodeAnnotation)) =>
        /\ last.done
        /\ last.err = NoErr
        /\ last.patchCalls = 0

\* C6, amended: requestRemoval for a Node that carries the removed annotation,
\* when the listing returns at least 2 Nodes, returns (true, nil) and issues no
\* patch call; with fewer Nodes listed it returns the quorum-floor error, also
\* without a patch call.
C6_RemovedIsTerminal ==
    (RequestForListedNode /\ HasAnnotation(Named, EtcdRemovedNodeAnnotation)) =>
        /\ last.patchCalls = 0
        /\ nodes = Before.nodes
        /\ IF last.listed >= MinControlPlaneNodes
           THEN last.done /\ last.err = NoErr
           ELSE ~last.done /\ last.err = ErrControlPlaneMinNodes

\* requestRemoval finds the acknowledgment among at least 2 Nodes.
C6_Witness ==
    /\ RequestForListedNode
    /\ HasAnnotation(Named, EtcdRemovedNodeAnnotation)
    /\ last.listed >= MinControlPlaneNodes
    /\ last.done

\* The members that carry the outgoing machine's node name.
OutgoingMembers == {m \in Before.members : m.name = last.machine.name}

\* C7: a Forward call that got a client and the member list, and in which the
\* outgoing node has no member or its member's id is not the client's LeaderID,
\* returns nil, issues no MoveLeader and leaves the leader as it was.
C7_NonLeaderNoOp ==
    (/\ last.op = "Forward"
     /\ last.membersCalls = 1
     /\ last.err # ErrListMembers
     /\ \/ OutgoingMembers = {}
        \/ \E m \in OutgoingMembers :
             /\ \A y \in OutgoingMembers : m.id <= y.id
             /\ m.id # last.LeaderID) =>
        /\ last.err = NoErr
        /\ last.moveTo = 0
        /\ leader = Before.leader

\* The outgoing node has a member, another member leads, Forward does nothing.
C7_Witness ==
    /\ last.op = "Forward"
    /\ last.membersCalls = 1
    /\ last.err = NoErr
    /\ OutgoingMembers # {}
    /\ \A m \in OutgoingMembers : m.id # last.LeaderID
    /\ ~last.leaderCandidate.isNil
    /\ last.moveTo = 0

\* A Forward call issued no etcd call.
NoEtcdCall == ~last.acquired /\ last.membersCalls = 0 /\ last.moveTo = 0

\* C8, as claimed: for every outgoing machine, Forward with a nil candidate
\* returns an error and issues no etcd call.
C8_NilCandidateAlwaysFails ==
    (last.op = "Forward" /\ last.leaderCandidate.isNil) =>
        last.err # NoErr /\ NoEtcdCall

\* C8, amended: Forward with a nil candidate issues no etcd call; it returns an
\* error when the outgoing machine has a Node reference, and nil when the
\* outgoing machine is nil or has no Node reference.
C8_NilCandidate ==
    (last.op = "Forward" /\ last.leaderCandidate.isNil) =>
        /\ NoEtcdCall
        /\ ~last.listed
        /\ leader = Before.leader
        /\ IF HasNodeRef(last.machine)
           THEN last.err = ErrCandidateNil
           ELSE last.err = NoErr

\* The leader's machine is forwarded to a nil candidate.
C8_Witness ==
    /\ last.op = "Forward"
    /\ last.leaderCandidate.isNil
    /\ HasNodeRef(last.machine)
    /\ \E m \in OutgoingMembers : m.id = last.LeaderID
    /\ last.err = ErrCandidateNil

\* The input nodes of a Reconcile call for which no client or no member list
\* was obtained.
FailedNodes == {i \in 1..Len(last.perNode) : ~last.perNode[i].listed}

\* C10: in a Reconcile call every input node is processed, in order; a node
\* whose client acquisition or member listing failed contributes no error and
\* no removed name; and when some other node gave a member list and no removal
\* failed, no orphaned member is left.
C10_PerNodeIsolation ==
    last.op = "Reconcile" =>
        /\ Len(last.perNode) = Len(last.nodeNames)
        /\ \A i \in 1..Len(last.perNode) :
             last.perNode[i].nodeName = last.nodeNames[i]
        /\ \A i \in FailedNodes :
             /\ last.perNode[i].removedMembers = <<>>
             /\ last.perNode[i].errs = <<>>
        /\ \A n \in Names \cup {""} :
             Count(last.removed, n) = Cardinality({i \in 1..Len(last.attempts) :
                                                     last.attempts[i].name = n})
        /\ (FailedNodes = 1..Len(last.perNode)) =>
             last.removed = <<>> /\ last.errs = <<>> /\ members = Before.members
        /\ (FailedNodes # 1..Len(last.perNode) /\ last.errs = <<>>) =>
             Orphans(members, last.nodeNames) = {}

\* The first input node is out of reach, the second one's member list shows an
\* orphan, and the orphan is removed.
C10_Witness ==
    /\ last.op = "Reconcile"
    /\ Len(last.perNode) = 2
    /\ ~last.perNode[1].client
    /\ last.perNode[2].listed
    /\ last.errs = <<>>
    /\ Len(last.removed) = 1
    /\ Before.members # members

\* The live Nodes whose removal passed the quorum check and has not landed:
\* a caller is past the check for them, or the removal was accepted.
Passed ==
    ({target[p].name : p \in {q \in Procs : pc[q] = "checked"}} \cap Live) \cup pending

\* C9, as claimed: with at most one membership-mutating call in flight, no two
\* removals are past the quorum check with neither landed, and a Node is left.
C9_SerializedCallsSafe ==
    serial => /\ Cardinality(Passed) <= 1
              /\ Cardinality(Live) >= MinControlPlaneNodes - 1

\* C9, amended: with at most one membership-mutating call in flight and no
\* call started before the removal accepted by an earlier one has landed, no
\* two removals are past the quorum check with neither landed, and a Node is
\* left.
C9_SerializedAndLandedSafe ==
    (serial /\ ~hasty) => /\ Cardinality(Passed) <= 1
                          /\ Cardinality(Live) >= MinControlPlaneNodes - 1

\* Serialized callers that wait for the landing took the cluster down to two
\* Nodes one removal at a time, and the next removal passed the check.
C9_Witness ==
    /\ serial
    /\ ~hasty
    /\ Cardinality(Live) = MinControlPlaneNodes
    /\ Cardinality(Passed) = 1
    /\ \E p \in Procs : pc[p] = "checked"

\* Unserialized callers: two removals passed the check on the same listing of
\* two Nodes, both landed and no Node is left.
C9_UnserializedRace == ~serial /\ ~hasty /\ Live = {}

\* The removal attempts of a Reconcile call that failed, in order.
FailedAttempts == SelectSeq(last.attempts, LAMBDA a : a.err # NoErr)

\* C11: the error Reconcile returns is nil exactly when no removal attempt of
\* the call failed; otherwise it holds the error of every failed attempt, in
\* order; and a failure does not end the loop: every orphaned member the call
\* found is attempted.
C11_AggregateOfAllFailures ==
    last.op = "Reconcile" =>
        /\ last.err.isNil <=> FailedAttempts = <<>>
        /\ last.err.errors = [i \in 1..Len(FailedAttempts) |-> FailedAttempts[i].err]
        /\ FailedNodes # 1..Len(last.perNode) =>
             \A m \in Orphans(Before.members, last.nodeNames) :
               \E i \in 1..Len(last.attempts) : last.attempts[i].name = m.name

\* A removal failed, a later one of the same call succeeded, and the failure
\* is reported.
C11_Witness ==
    /\ last.op = "Reconcile"
    /\ ~last.err.isNil
    /\ \E i, j \in 1..Len(last.attempts) :
         /\ i < j
         /\ last.attempts[i].err = ErrRemoveMember
         /\ last.attempts[j].err = NoErr
         /\ last.attempts[j].rmId # 0

\* The context of a Reconcile call was cancelled at an RPC the call made.
CancelledPartWay ==
    /\ last.op = "Reconcile"
    /\ last.cancel.node \in 1..Len(last.perNode)
    /\ \/ last.cancel.node < Len(last.perNode)
       \/ last.cancel.attempt <= Len(last.perNode[last.cancel.node].removedMembers)

\* The removal attempts of a Reconcile call that succeeded, in order.
SucceededAttempts == SelectSeq(last.attempts, LAMBDA a : a.err = NoErr)

\* C13: a Reconcile call whose context is cancelled part-way returns a non-nil
\* error.
C13_CancelledReturnsError == CancelledPartWay => ~last.err.isNil

\* C13: a Reconcile call whose context is cancelled part-way returns the names
\* of the removals that succeeded before the cancellation.
C13_CancelledReturnsSucceeded ==
    CancelledPartWay =>
        last.removed = [i \in 1..Len(SucceededAttempts) |-> SucceededAttempts[i].name]

\* C13: a Reconcile call whose context is cancelled part-way returns the names
\* of the removals that succeeded before the cancellation together with a
\* non-nil error.
C13_CancelledReportsSucceeded ==
    C13_CancelledReturnsError /\ C13_CancelledReturnsSucceeded

C14_NeverPanics ==
    /\ last.op = "Reconcile" => Panic \notin Range(last.errs)
    /\ last.op = "RemoveForMachine" => last.err # Panic
    /\ last.op = "Forward" => last.err # Panic

\* The last two calls are Reconcile calls with the same node names, the first
\* left no orphaned member, and the member list did not change in between.
SecondReconcile ==
    /\ last.op = "Reconcile"
    /\ prev # NoCall
    /\ prev.nodeNames = last.nodeNames
    /\ Orphans(prev.members, prev.nodeNames) = {}
    /\ Before.members = prev.members

\* C15: a Reconcile call that follows, on an unchanged cluster and with the
\* same node names, a Reconcile call that left no orphaned member returns an
\* empty list and no error, issues no RemoveMember and removes nothing.
C15_ReconcileIdempotent ==
    SecondReconcile =>
        /\ last.removed = <<>>
        /\ last.err.isNil
        /\ last.attempts = <<>>
        /\ members = Before.members

\* The first call removed an orphan; the second one listed the members again.
C15_Witness ==
    /\ SecondReconcile
    /\ prev.removedAny
    /\ \E i \in 1..Len(last.perNode) : last.perNode[i].listed

\* C16: a RemoveForMachine call changes no Node but the one it names, and of
\* that Node no annotation but the remove annotation.
C16_PatchTouchesOnlyRemove ==
    last.op = "RemoveForMachine" =>
        /\ DOMAIN nodes = DOMAIN Before.nodes
        /\ \A n \in DOMAIN nodes, k \in AnnotationKeys :
             (n # last.machine.name \/ k # EtcdRemoveAnnotation) =>
                nodes[n].m[k] = Before.nodes[n].m[k]

\* The call patched a Node that carried another annotation, next to a Node
\* with annotations of its own.
C16_Witness ==
    /\ RequestForListedNode
    /\ last.patchCalls = 1
    /\ last.err = NoErr
    /\ Named.m[OtherAnnotation] = "x"
    /\ Named.m[EtcdRemoveAnnotation] = Absent
    /\ nodes[last.machine.name].m[EtcdRemoveAnnotation] = "true"
    /\ \E n \in DOMAIN nodes \ {last.machine.name} : nodes[n].m[OtherAnnotation] = "x"

\* The members that carry the candidate's node name.
CandidateMembers == {m \in Before.members : m.name = last.leaderCandidate.name}

\* A Forward call that got a client and the member list, for an outgoing node
\* whose member is the leader.
ForwardFromLeader ==
    /\ last.op = "Forward"
    /\ last.membersCalls = 1
    /\ last.err # ErrListMembers
    /\ \E m \in OutgoingMembers :
         /\ \A y \in OutgoingMembers : m.id <= y.id
         /\ m.id = last.LeaderID

C18_UnknownNameNotFound ==
    (/\ last.op = "RemoveForMachine"
     /\ HasNodeRef(last.machine)
     /\ last.listed >= MinControlPlaneNodes
     /\ last.machine.name \notin DOMAIN Before.nodes) =>
        /\ ~last.done
        /\ last.err = ErrNodeNotFound
        /\ last.patchCalls = 0

\* The node names of the caller that reconciles on every tick.
TickNodeNames == IF last # NoCall THEN last.nodeNames ELSE prev.nodeNames

\* The input nodes of the call for which a client was acquired.
ReachableInputs ==
    {last.perNode[i].nodeName : i \in {j \in 1..Len(last.perNode) : last.perNode[j].client}}

\* Every RPC the call made succeeded.
RpcsSucceeded ==
    /\ \A i \in 1..Len(last.perNode) : last.perNode[i].client => last.perNode[i].listed
    /\ \A i \in 1..Len(last.attempts) :
         last.attempts[i].err \notin {ErrListNodes, ErrListMembers, ErrRemoveMember}

\* A Reconcile call that just ended reached the peer of an input node, and
\* its RPCs succeeded.
HealthyTick ==
    last.op = "Reconcile" => ReachableInputs # {} /\ RpcsSucceeded

\* A Reconcile call that just ended reached the peer of an input node that
\* is a live control-plane Node, and its RPCs succeeded.
HealthyLiveTick ==
    last.op = "Reconcile" => ReachableInputs \cap DOMAIN Before.nodes # {} /\ RpcsSucceeded

\* The caller has ticked, etcd has no member with a non-empty derived name
\* outside its node names, and a Reconcile call that just ended returned an
\* empty list and no error.
Corrected ==
    /\ last # NoCall \/ prev # NoCall
    /\ Orphans(members, TickNodeNames) = {}
    /\ last.op = "Reconcile" => last.removed = <<>> /\ last.err.isNil

\* C19, as claimed: with Reconcile invoked again and again on fixed node
\* names and at least 2 Nodes staying live, if from some point on every call
\* reaches the peer of an input node and its RPCs succeed, the cluster is
\* eventually corrected and stays so: no orphaned member is left and every
\* later Reconcile call returns an empty list and no error.
C19_EventuallyCorrected == <>[]HealthyTick => <>[]Corrected

\* C19, amended: the same, if from some point on every call reaches the peer
\* of an input node that is a live control-plane Node.
C19_EventuallyCorrectedByLiveInput == <>[]HealthyLiveTick => <>[]Corrected

\* A healthy tick removed an orphan, and the healthy tick after it found
\* nothing to remove.
C19_Witness ==
    /\ prev # NoCall
    /\ prev.removedAny
    /\ last.op = "Reconcile"
    /\ ReachableInputs \cap DOMAIN Before.nodes # {}
    /\ RpcsSucceeded
    /\ Corrected

\* C20: no operation of the package takes a Node away, deletes a remove
\* annotation or changes a removed annotation; RemoveForMachine returns
\* done = true for a machine with a listed Node only if that Node carried the
\* removed annotation when the call was made; and a call that patches returns
\* done = false.
C20_HandshakeMovesForward ==
    last # NoCall =>
        /\ \A n \in DOMAIN Before.nodes :
             /\ n \in DOMAIN nodes
             /\ HasAnnotation(Before.nodes[n], EtcdRemoveAnnotation) =>
                    HasAnnotation(nodes[n], EtcdRemoveAnnotation)
             /\ nodes[n].m[EtcdRemovedNodeAnnotation] =
                    Before.nodes[n].m[EtcdRemovedNodeAnnotation]
        /\ last.op = "RemoveForMachine" =>
             /\ (last.done /\ HasNodeRef(last.machine)
                           /\ last.machine.name \in DOMAIN Before.nodes) =>
                    HasAnnotation(Before.nodes[last.machine.name], EtcdRemovedNodeAnnotation)
             /\ last.patchCalls = 1 => ~last.done

\* RemoveForMachine returns done = true for a Node on which the request was
\* written by an earlier call and acknowledged since.
C20_Witness ==
    /\ last.op = "RemoveForMachine"
    /\ HasNodeRef(last.machine)
    /\ last.machine.name \in DOMAIN Before.nodes
    /\ Before.nodes[last.machine.name].m[EtcdRemoveAnnotation] = "true"
    /\ HasAnnotation(Before.nodes[last.machine.name], EtcdRemovedNodeAnnotation)
    /\ last.done
    /\ nodes = Before.nodes

====
